---- MODULE Spec2Model ----
(***************************************************************************)
(* Model of the schedule-to-slot generation engine of slotlymed-backend:   *)
(* generate_slots of src/api/index.py, run as a state machine with one     *)
(* step per loop iteration.                                                *)
(*                                                                         *)
(* Dates are day numbers (day 0 is a Monday), datetimes are minutes since  *)
(* midnight of day 0, times of day are minutes since midnight.  A JSON     *)
(* value is a record [tag, val]: the tag tells what kind of value the      *)
(* field holds ("absent" when the key is missing), val carries its number. *)
(***************************************************************************)
EXTENDS Integers, Sequences, FiniteSets, TLC

\* ------------------------------------------------------------------ bounds
\* datetime.now().date() is one of the days 0..MaxToday
MaxToday == 1
\* the enumeration is cut off once the slot list holds MaxSlots entries
MaxSlots == 200
\* the requests working on the store at the same time
MaxRequests == 2
\* the operations started on the store in one run
MaxOps == 2

\* ------------------------------------------------------- program constants
\* today + timedelta(days=180)
HorizonDays == 180
\* the fallback of slot_duration_minutes
DefaultDuration == 30
\* the smallest default slot_duration_minutes that is kept
MinDuration == 5
MinutesPerDay == 24 * 60

HM(h, m) == h * 60 + m

\* --------------------------------------------------------------- JSON values
Absent == [tag |-> "absent", val |-> 0]
\* a string that no parser accepts, or a value of the wrong type
Bad == [tag |-> "bad", val |-> 0]
\* the string "HH:MM" of minute m of the day
TimeStr(m) == [tag |-> "hhmm", val |-> m]
\* the integer n
IntVal(n) == [tag |-> "int", val |-> n]
\* the string "YYYY-MM-DD" of day d, as strftime writes it
Ymd(d) == [tag |-> "ymd", val |-> d]
\* a string strptime reads as day d but strftime never writes ("2026-1-5")
Loose(d) == [tag |-> "loose", val |-> d]

\* dict.get(key, default)
GetOr(v, dflt) == IF v.tag = "absent" THEN dflt ELSE v

\* time.fromisoformat: the minute of the day, or a ValueError
TimeParses(v) == v.tag = "hhmm"
ParseTime(v) == v.val

\* datetime.strptime(s, "%Y-%m-%d").date()
DateParses(v) == v.tag \in {"ymd", "loose"}
ParseDate(v) == v.val

\* date.strftime("%Y-%m-%d")
DateStr(d) == Ymd(d)

\* datetime.combine(date, time)
Combine(d, t) == d * MinutesPerDay + t
\* datetime.time() and datetime.strftime("%H:%M")
TimeOf(dt) == dt % MinutesPerDay
\* datetime.strftime("%Y-%m-%d"), as a day number
DateOf(dt) == dt \div MinutesPerDay

day_mapping ==
    [n \in {"Monday", "Tuesday", "Wednesday", "Thursday", "Friday",
            "Saturday", "Sunday"} |->
        CASE n = "Monday" -> 0 [] n = "Tuesday" -> 1 [] n = "Wednesday" -> 2
          [] n = "Thursday" -> 3 [] n = "Friday" -> 4 [] n = "Saturday" -> 5
          [] n = "Sunday" -> 6]

\* date.weekday()
Weekday(d) == d % 7
\* [k for k, v in day_mapping.items() if v == weekday][0]
DayName(d) == CHOOSE n \in DOMAIN day_mapping : day_mapping[n] = Weekday(d)

\* ------------------------------------------------- blocked-date resolution
\* while current <= end: blocked_dates.add(current.strftime(...))
\* the range without its last day
ExpandRangeExclusive(a, b) == {DateStr(d) : d \in a..(b - 1)}

ExpandRange(a, b) == {DateStr(d) : d \in a..b}

\* one item of blocked_dates: a bare string, a {date} record, a {start, end}
\* record (expanded when both ends parse, dropped otherwise), anything else
BlockedOfItem(item) ==
    CASE item.kind = "str" -> {item.a}
      [] item.kind = "date" -> {item.a}
      [] item.kind = "range" ->
            IF DateParses(item.a) /\ DateParses(item.b)
            THEN ExpandRange(ParseDate(item.a), ParseDate(item.b))
            ELSE {}
      [] OTHER -> {}

\* an entry whose end does not parse still blocks its start
BlockedOfRangePartial(r) ==
    IF DateParses(r.start) /\ DateParses(r.end)
    THEN ExpandRange(ParseDate(r.start), ParseDate(r.end))
    ELSE IF DateParses(r.start) THEN {DateStr(ParseDate(r.start))} ELSE {}

\* one entry of blocked_date_ranges
BlockedOfRange(r) ==
    IF DateParses(r.start) /\ DateParses(r.end)
    THEN ExpandRange(ParseDate(r.start), ParseDate(r.end))
    ELSE {}

\* the set blocked_dates after both parsing loops
ResolveBlocked(sd) ==
    UNION {BlockedOfItem(sd.blocked_dates[i]) : i \in DOMAIN sd.blocked_dates}
    \cup
    UNION {BlockedOfRange(sd.blocked_date_ranges[i]) :
              i \in DOMAIN sd.blocked_date_ranges}

\* date_str in blocked_dates
IsBlocked(date_str, blocked) == date_str \in blocked

\* ------------------------------------------------------ default rule set-up
\* default_days: the weekday numbers of the names day_mapping knows
DefaultDays(cfg) ==
    {day_mapping[cfg.days[i]] :
        i \in {j \in DOMAIN cfg.days : cfg.days[j] \in DOMAIN day_mapping}}

\* try: time.fromisoformat(default_config.get("start_time", "09:00"))
\* except: 09:00
DefaultStart(cfg) ==
    LET v == GetOr(cfg.start_time, TimeStr(HM(9, 0)))
    IN  IF TimeParses(v) THEN ParseTime(v) ELSE HM(9, 0)

DefaultEnd(cfg) ==
    LET v == GetOr(cfg.end_time, TimeStr(HM(17, 0)))
    IN  IF TimeParses(v) THEN ParseTime(v) ELSE HM(17, 0)

\* if not isinstance(default_duration, int) or default_duration < 5: 30
ClampDuration(v) ==
    IF v.tag # "int" \/ v.val < MinDuration THEN DefaultDuration ELSE v.val

DefaultDurationOf(cfg) ==
    ClampDuration(GetOr(cfg.slot_duration_minutes, IntVal(DefaultDuration)))

\* default_config.get("breaks", []), [] when it is not a list
DefaultBreaks(cfg) == IF cfg.breaks.kind = "list" THEN cfg.breaks.items ELSE <<>>

\* the first override of each known day name is kept
DayOverridesFirstWins(ovs) ==
    [n \in {ovs[i].day : i \in {j \in DOMAIN ovs : ovs[j].day \in DOMAIN day_mapping}} |->
        LET first == CHOOSE i \in DOMAIN ovs :
                        /\ ovs[i].day = n
                        /\ \A j \in DOMAIN ovs : ovs[j].day = n => i <= j
        IN  ovs[first]]

\* day_overrides: the last override of each known day name
DayOverrides(ovs) ==
    [n \in {ovs[i].day : i \in {j \in DOMAIN ovs : ovs[j].day \in DOMAIN day_mapping}} |->
        LET last == CHOOSE i \in DOMAIN ovs :
                        /\ ovs[i].day = n
                        /\ \A j \in DOMAIN ovs : ovs[j].day = n => j <= i
        IN  ovs[last]]

\* ------------------------------------------------------- the rule of a day
\* an override honoured only on a weekday the default rule enables
BranchEnabledOnly(day_name, weekday, overrides_by_day, ddays) ==
    IF weekday \notin ddays THEN "none"
    ELSE IF day_name \in DOMAIN overrides_by_day THEN "override"
    ELSE "default"

\* which branch of "if day_name in day_overrides / elif weekday in
\* default_days / else" a day takes
Branch(day_name, weekday, overrides_by_day, ddays) ==
    IF day_name \in DOMAIN overrides_by_day THEN "override"
    ELSE IF weekday \in ddays THEN "default"
    ELSE "none"

\* override.get("start_time", "09:00"), override.get("end_time", "17:00")
OverrideStart(ov) == GetOr(ov.start_time, TimeStr(HM(9, 0)))
OverrideEnd(ov) == GetOr(ov.end_time, TimeStr(HM(17, 0)))
\* the literal 30 as fallback instead of the default rule's duration
OverrideDurationLiteral(ov, dflt) == GetOr(ov.slot_duration_minutes, IntVal(DefaultDuration))

\* override.get("slot_duration_minutes", default_duration)
OverrideDuration(ov, dflt) == GetOr(ov.slot_duration_minutes, IntVal(dflt))
\* override.get("breaks", [])
OverrideBreaks(ov) == IF ov.breaks.kind = "absent" THEN <<>> ELSE ov.breaks.items

\* every time.fromisoformat(b["start"]), time.fromisoformat(b["end"]) succeeds
BreaksParse(bs) ==
    \A i \in DOMAIN bs : TimeParses(bs[i].start) /\ TimeParses(bs[i].end)

\* break_intervals
BreakIntervals(bs) ==
    [i \in DOMAIN bs |->
        [start |-> ParseTime(bs[i].start), end |-> ParseTime(bs[i].end)]]

\* a candidate that ends exactly at the break's start counts as overlapping
OverlapsTouching(t, e, b) == ~(t >= b.end \/ e < b.start)

\* the test of the 90-day variant: only the candidate's start is looked at
OverlapsStartOnly(t, e, b) == b.start <= t /\ t < b.end

\* not (current_slot_time.time() >= break_end or slot_end.time() <= break_start)
Overlaps(t, e, b) == ~(t >= b.end \/ e <= b.start)

\* a candidate that ends exactly at the end of the day counts as overrunning
OverrunsInclusive(cst, dur, eod) == cst + dur >= eod

\* the candidate's start compared with the end of the day, not its end
OverrunsByStart(cst, dur, eod) == cst > eod

\* slot_end = current_slot_time + slot_delta; if slot_end > end_of_day: break
Overruns(cst, dur, eod) == cst + dur > eod

\* the index of the first break of break_intervals the candidate overlaps,
\* 0 when in_break stays False
FirstBreak(cst, slot_end, bi) ==
    LET hit == {i \in DOMAIN bi : Overlaps(TimeOf(cst), TimeOf(slot_end), bi[i])}
    IN  IF hit = {} THEN 0 ELSE CHOOSE i \in hit : \A j \in hit : i <= j

\* Slot(date=..., time=...), status defaults to "available"
Slot(dt) == [date |-> DateOf(dt), time |-> TimeOf(dt), status |-> "available"]

\* ------------------------------------------------------------------ inputs
ListOf(items) == [kind |-> "list", items |-> items]
NoBreaksKey == [kind |-> "absent", items |-> <<>>]
NotAList == [kind |-> "other", items |-> <<>>]
Brk(a, b) == [start |-> TimeStr(a), end |-> TimeStr(b)]

DefaultRule(days, st, en, dur, brk) ==
    [days |-> days, start_time |-> st, end_time |-> en,
     slot_duration_minutes |-> dur, breaks |-> brk]

OverrideRule(day, st, en, dur, brk) ==
    [day |-> day, start_time |-> st, end_time |-> en,
     slot_duration_minutes |-> dur, breaks |-> brk]

Structure(dflt, ovs, blk) ==
    [default |-> dflt, overrides |-> ovs,
     blocked_dates |-> blk[1], blocked_date_ranges |-> blk[2]]

DayLists == {<<>>, <<"Monday">>, <<"Monday", "Funday", "Saturday">>}

\* (start_time, end_time) of the default rule
DefaultWindows ==
    { <<TimeStr(HM(9, 0)), TimeStr(HM(10, 10))>>,
      <<Absent, TimeStr(HM(9, 40))>>,
      <<Bad, TimeStr(HM(9, 50))>>,
      <<TimeStr(HM(16, 20)), Bad>> }

DefaultDurations == {IntVal(20), IntVal(4), IntVal(0), Bad, Absent}

BreakOptions ==
    { ListOf(<<>>),
      ListOf(<<Brk(HM(9, 30), HM(9, 45))>>),
      ListOf(<<Brk(HM(9, 45), HM(9, 30))>>),
      ListOf(<<Brk(HM(10, 0), HM(10, 5)), Brk(HM(9, 10), HM(9, 25))>>),
      ListOf(<<[start |-> Bad, end |-> TimeStr(HM(9, 45))]>>),
      NoBreaksKey,
      NotAList }

DefaultsPlain ==
    {DefaultRule(d, w[1], w[2], dur, ListOf(<<>>)) :
        d \in DayLists, w \in DefaultWindows, dur \in DefaultDurations}

DefaultsWithBreaks ==
    {DefaultRule(<<"Monday", "Funday", "Saturday">>, TimeStr(HM(9, 0)),
                 TimeStr(HM(10, 10)), dur, b) :
        dur \in {IntVal(20), Absent}, b \in BreakOptions}

\* the default rules the overrides are combined with
DefaultsBase ==
    { DefaultRule(<<>>, TimeStr(HM(9, 0)), TimeStr(HM(10, 10)), IntVal(20),
                  ListOf(<<Brk(HM(9, 30), HM(9, 45))>>)),
      DefaultRule(<<"Monday", "Funday", "Saturday">>, TimeStr(HM(9, 0)),
                  TimeStr(HM(10, 10)), Absent,
                  ListOf(<<Brk(HM(9, 30), HM(9, 45))>>)),
      DefaultRule(<<"Monday">>, TimeStr(HM(9, 5)), TimeStr(HM(10, 10)),
                  IntVal(4), ListOf(<<>>)) }

\* (start_time, end_time, slot_duration_minutes, breaks) of an override
OverrideBodies ==
    { <<TimeStr(HM(9, 10)), TimeStr(HM(10, 0)), IntVal(20), ListOf(<<>>)>>,
      <<TimeStr(HM(9, 10)), TimeStr(HM(10, 0)), Absent, NoBreaksKey>>,
      <<TimeStr(HM(9, 10)), TimeStr(HM(10, 0)), IntVal(20), NoBreaksKey>>,
      <<TimeStr(HM(9, 10)), TimeStr(HM(10, 0)), Absent, ListOf(<<>>)>>,
      <<TimeStr(HM(9, 10)), TimeStr(HM(10, 0)), IntVal(0), ListOf(<<>>)>>,
      <<TimeStr(HM(9, 10)), TimeStr(HM(10, 0)), IntVal(0 - 30), ListOf(<<>>)>>,
      <<TimeStr(HM(1, 40)), TimeStr(HM(10, 0)), IntVal(0 - 30),
        ListOf(<<Brk(HM(23, 0), HM(23, 30))>>)>>,
      <<TimeStr(HM(0, 10)), TimeStr(HM(1, 0)), IntVal(0 - 30), ListOf(<<>>)>>,
      <<TimeStr(HM(0, 10)), TimeStr(HM(10, 0)), IntVal(0 - 700),
        ListOf(<<Brk(HM(13, 0), HM(23, 59))>>)>>,
      <<TimeStr(HM(9, 0)), TimeStr(HM(10, 0)), IntVal(0),
        ListOf(<<Brk(HM(8, 0), HM(11, 0))>>)>>,
      <<Bad, TimeStr(HM(10, 0)), IntVal(20), ListOf(<<>>)>>,
      <<TimeStr(HM(9, 10)), Bad, IntVal(20), ListOf(<<>>)>>,
      <<TimeStr(HM(9, 10)), TimeStr(HM(10, 0)), IntVal(20),
        ListOf(<<[start |-> TimeStr(HM(9, 20)), end |-> Bad]>>)>>,
      <<TimeStr(HM(9, 10)), TimeStr(HM(10, 0)), Bad, ListOf(<<>>)>>,
      <<TimeStr(HM(9, 10)), TimeStr(HM(10, 0)), IntVal(20),
        ListOf(<<Brk(HM(9, 20), HM(9, 25))>>)>>,
      <<Absent, TimeStr(HM(9, 40)), IntVal(20), ListOf(<<>>)>>,
      <<TimeStr(HM(16, 20)), Absent, IntVal(20), ListOf(<<>>)>>,
      <<TimeStr(HM(10, 0)), TimeStr(HM(9, 0)), IntVal(20), ListOf(<<>>)>>,
      <<TimeStr(HM(9, 10)), TimeStr(HM(9, 20)), IntVal(3), ListOf(<<>>)>>,
      <<TimeStr(HM(9, 10)), TimeStr(HM(10, 10)), IntVal(40),
        ListOf(<<Brk(HM(9, 45), HM(9, 30))>>)>>,
      <<TimeStr(HM(9, 10)), TimeStr(HM(10, 30)), IntVal(20),
        ListOf(<<Brk(HM(9, 40), HM(9, 50)), Brk(HM(9, 20), HM(9, 45))>>)>> }

Ov(day, body) == OverrideRule(day, body[1], body[2], body[3], body[4])

PlainBody == <<TimeStr(HM(9, 10)), TimeStr(HM(10, 0)), IntVal(20), ListOf(<<>>)>>
BreakBody ==
    <<TimeStr(HM(9, 10)), TimeStr(HM(10, 0)), IntVal(20),
      ListOf(<<Brk(HM(9, 20), HM(9, 25))>>)>>
BareBody == <<TimeStr(HM(9, 10)), TimeStr(HM(10, 0)), Absent, NoBreaksKey>>

OverrideLists ==
    {<<>>}
    \cup {<<Ov(day, body)>> : day \in {"Monday", "Saturday"}, body \in OverrideBodies}
    \cup { <<Ov("Funday", PlainBody)>>,
           <<Ov("Saturday", PlainBody), Ov("Saturday", BreakBody)>>,
           <<Ov("Saturday", BreakBody), Ov("Saturday", PlainBody)>>,
           <<Ov("Monday", PlainBody), Ov("Saturday", BareBody)>>,
           <<Ov("Saturday", BareBody), Ov("Funday", BreakBody)>> }

OverrideListsFew ==
    { <<Ov("Saturday", PlainBody)>>, <<Ov("Monday", BareBody)>>,
      <<Ov("Monday", PlainBody), Ov("Saturday", BareBody)>> }

BareDate(v) == [kind |-> "str", a |-> v, b |-> Absent]
DateRecord(v) == [kind |-> "date", a |-> v, b |-> Absent]
RangeRecord(v, w) == [kind |-> "range", a |-> v, b |-> w]
OtherRecord == [kind |-> "other", a |-> Absent, b |-> Absent]
Range(v, w) == [start |-> v, end |-> w]

\* (blocked_dates, blocked_date_ranges)
NoBlocks == << <<>>, <<>> >>
BlockedOptions ==
    { NoBlocks,
      << <<BareDate(Ymd(7)), DateRecord(Ymd(5)), RangeRecord(Ymd(19), Ymd(21))>>,
         <<Range(Ymd(12), Ymd(13))>> >>,
      << <<RangeRecord(Ymd(5), Ymd(7))>>, <<Range(Ymd(12), Ymd(13))>> >>,
      << <<RangeRecord(Bad, Ymd(7)), BareDate(Loose(14)), BareDate(Bad), OtherRecord>>,
         <<Range(Ymd(7), Bad), Range(Ymd(14), Ymd(12)), Range(Ymd(19), Ymd(20))>> >>,
      << <<>>, <<Range(Loose(5), Ymd(5)), Range(Ymd(HorizonDays), Ymd(HorizonDays + 1))>> >> }

BlockedFew == {NoBlocks, << <<RangeRecord(Ymd(5), Ymd(7))>>, <<Range(Ymd(12), Ymd(13))>> >>}

WorkingWeek == <<"Monday", "Tuesday", "Wednesday", "Thursday", "Friday">>
\* Monday-Friday 09:00-17:00 in 30-minute slots, without and with a lunch break
ScenarioA ==
    Structure(DefaultRule(WorkingWeek, TimeStr(HM(9, 0)), TimeStr(HM(17, 0)),
                          IntVal(30), ListOf(<<>>)), <<>>, NoBlocks)
ScenarioB ==
    Structure(DefaultRule(WorkingWeek, TimeStr(HM(9, 0)), TimeStr(HM(17, 0)),
                          IntVal(30), ListOf(<<Brk(HM(12, 0), HM(13, 0))>>)),
              <<>>, NoBlocks)

Structures ==
    {ScenarioA, ScenarioB}
    \cup {Structure(d, <<>>, NoBlocks) : d \in DefaultsPlain \cup DefaultsWithBreaks}
    \cup {Structure(d, o, b) : d \in DefaultsBase, o \in OverrideLists, b \in BlockedFew}
    \cup {Structure(d, o, b) : d \in DefaultsBase, o \in OverrideListsFew, b \in BlockedOptions}

\* ------------------------------------------------------------ state machine
VARIABLES
    structure,          \* the argument of generate_slots
    today,              \* datetime.now().date()
    pc,                 \* "setup", "day" (line 339), "slot" (line 379),
                        \* "done" (returned), "failed" (raised)
    exc,                \* the exception raised, "none" so far
    slots,
    end_date, current_date,
    blocked_dates,
    default_days, default_start, default_end, default_duration, default_breaks,
    day_overrides,
    start_time, end_time, duration, break_intervals,
    current_slot_time, end_of_day,
    \* generate_schedule (index.py) and handler.do_POST (schedule.py)
    route,              \* "index", "handler"; "none" outside a request
    schedule_text,      \* the request's text
    validation_error,   \* what the route's validator returned
    calls,              \* the collaborators called so far, in order
    status,             \* the HTTP status answered, 0 before the response
    total_slots,        \* the total_slots field of a success body, else 0
    \* the store behind SheetsClient and the requests working on it
    availability,       \* slot key -> "absent", "available", "booked"
    appointments,       \* the rows of the appointments table
    next_id,            \* the id the store gives the next appointment row
    request,            \* per request: operation, position, arguments, outcome
    started,            \* number of operations started so far
    doctors,            \* the doctors table: id -> row, or no row
    users,              \* the e-mail addresses of the users table
    reply               \* the last save_doctor or trial_signup and its answer

endpoint == <<route, schedule_text, validation_error, calls, status, total_slots>>
registry == <<doctors, users, reply>>
store == <<availability, appointments, next_id, request, started, registry>>
callers == <<endpoint, store>>
defaults == <<default_days, default_start, default_end, default_duration,
              default_breaks, day_overrides, blocked_dates, end_date>>
dayrule == <<start_time, end_time, duration, break_intervals,
             current_slot_time, end_of_day>>
enumeration == <<structure, today, pc, exc, slots, current_date, defaults, dayrule>>
vars == <<enumeration, callers>>

\* ------------------------------------------------- the store and its users
Doctors == {"d1", "d2"}
SlotKey(doctor_id, date, time) == [doctor_id |-> doctor_id, date |-> date, time |-> time]
\* the availability rows of the runs: doctor d1 on day 1 at 09:00 and 09:30
\* and on day 2 at 09:00, doctor d2 on day 1 at 09:00
SlotKeys ==
    { SlotKey("d1", 1, HM(9, 0)), SlotKey("d1", 1, HM(9, 30)),
      SlotKey("d1", 2, HM(9, 0)), SlotKey("d2", 1, HM(9, 0)) }
Requests == 1..MaxRequests

\* a time of day as the store renders it: HH:MM, or HH:MM:SS
Rendered(t, seconds) == [hm |-> t, seconds |-> seconds]
NoTime == Rendered(0, FALSE)
IdleRequest ==
    [op |-> "idle", at |-> "done", doctor_id |-> "", date |-> 0, time |-> 0,
     apt_time |-> NoTime, id |-> 0, outcome |-> "none"]

\* no request is being served: the state of the callers while generate_slots
\* is looked at on its own
EndpointIdle ==
    /\ route = "none" /\ schedule_text = [len |-> 0, words |-> {}]
    /\ validation_error = "none" /\ calls = <<>> /\ status = 0
    /\ total_slots = 0
\* a doctor record as far as save_doctor and trial_signup look at it
DoctorRow(link, customer_id) ==
    [present |-> TRUE, link |-> link, customer_id |-> customer_id]
NoDoctor == [present |-> FALSE, link |-> "", customer_id |-> ""]
NoReply ==
    [op |-> "none", id |-> "", link |-> "", customer_id |-> "", email |-> "",
     with_slots |-> FALSE, existing |-> "", status |-> 0, doctor_id |-> "",
     save_id |-> ""]

RegistryIdle ==
    /\ doctors = [d \in Doctors |-> NoDoctor]
    /\ users = {}
    /\ reply = NoReply
StoreIdle ==
    /\ availability = [k \in SlotKeys |-> "absent"]
    /\ appointments = {} /\ next_id = 1
    /\ request = [p \in Requests |-> IdleRequest]
    /\ started = 0
    /\ RegistryIdle

\* the locals of generate_slots before its first line
LocalsUnset ==
    /\ slots = <<>>
    /\ end_date = 0 /\ current_date = 0
    /\ blocked_dates = {}
    /\ default_days = {} /\ default_start = 0 /\ default_end = 0
    /\ default_duration = 0 /\ default_breaks = <<>>
    /\ day_overrides = <<>>
    /\ start_time = 0 /\ end_time = 0 /\ duration = 0 /\ break_intervals = <<>>
    /\ current_slot_time = 0 /\ end_of_day = 0
\* generate_slots is not running
EnumerationIdle ==
    /\ structure = ScenarioA /\ today = 0
    /\ pc = "idle" /\ exc = "none"
    /\ LocalsUnset

Init ==
    /\ structure \in Structures
    /\ today \in 0..MaxToday
    /\ pc = "setup"
    /\ exc = "none"
    /\ EndpointIdle /\ StoreIdle
    /\ LocalsUnset

\* lines 257-336: the horizon, the blocked set, the default rule, the overrides
Setup ==
    /\ pc = "setup"
    /\ end_date' = today + HorizonDays
    /\ current_date' = today
    /\ blocked_dates' = ResolveBlocked(structure)
    /\ default_days' = DefaultDays(structure.default)
    /\ default_start' = DefaultStart(structure.default)
    /\ default_end' = DefaultEnd(structure.default)
    /\ default_duration' = DefaultDurationOf(structure.default)
    /\ default_breaks' = DefaultBreaks(structure.default)
    /\ day_overrides' = DayOverrides(structure.overrides)
    /\ pc' = "day"
    /\ UNCHANGED <<callers, structure, today, exc, slots, dayrule>>

\* while current_date <= end_date
InHorizon == pc = "day" /\ current_date <= end_date

\* lines 342-345
SkipBlocked ==
    /\ InHorizon
    /\ IsBlocked(DateStr(current_date), blocked_dates)
    /\ current_date' = current_date + 1
    /\ UNCHANGED <<callers, structure, today, pc, exc, slots, defaults, dayrule>>

\* lines 366-377 once the rule of the day is chosen: parse the breaks, set
\* the cursor; a ValueError or TypeError leaves generate_slots
EnterDay(st, en, dur, bs) ==
    IF ~TimeParses(st) \/ ~TimeParses(en) \/ ~BreaksParse(bs)
    THEN /\ pc' = "failed" /\ exc' = "ValueError"
         /\ UNCHANGED <<dayrule>>
    ELSE IF dur.tag # "int"
    THEN /\ pc' = "failed" /\ exc' = "TypeError"
         /\ start_time' = ParseTime(st) /\ end_time' = ParseTime(en)
         /\ break_intervals' = BreakIntervals(bs)
         /\ UNCHANGED <<duration, current_slot_time, end_of_day>>
    ELSE /\ pc' = "slot" /\ exc' = exc
         /\ start_time' = ParseTime(st) /\ end_time' = ParseTime(en)
         /\ duration' = dur.val
         /\ break_intervals' = BreakIntervals(bs)
         /\ current_slot_time' = Combine(current_date, ParseTime(st))
         /\ end_of_day' = Combine(current_date, ParseTime(en))

\* lines 351-356
EnterOverride ==
    /\ InHorizon
    /\ ~IsBlocked(DateStr(current_date), blocked_dates)
    /\ Branch(DayName(current_date), Weekday(current_date), day_overrides,
              default_days) = "override"
    /\ LET ov == day_overrides[DayName(current_date)]
       IN  EnterDay(OverrideStart(ov), OverrideEnd(ov),
                    OverrideDuration(ov, default_duration), OverrideBreaks(ov))
    /\ UNCHANGED <<callers, structure, today, slots, current_date, defaults>>

\* lines 357-361
EnterDefault ==
    /\ InHorizon
    /\ ~IsBlocked(DateStr(current_date), blocked_dates)
    /\ Branch(DayName(current_date), Weekday(current_date), day_overrides,
              default_days) = "default"
    /\ EnterDay(TimeStr(default_start), TimeStr(default_end),
                IntVal(default_duration), default_breaks)
    /\ UNCHANGED <<callers, structure, today, slots, current_date, defaults>>

\* lines 362-364
SkipDay ==
    /\ InHorizon
    /\ ~IsBlocked(DateStr(current_date), blocked_dates)
    /\ Branch(DayName(current_date), Weekday(current_date), day_overrides,
              default_days) = "none"
    /\ current_date' = current_date + 1
    /\ UNCHANGED <<callers, structure, today, pc, exc, slots, defaults, dayrule>>

\* line 406
Return ==
    /\ pc = "day" /\ ~(current_date <= end_date)
    /\ pc' = "done"
    /\ UNCHANGED <<callers, structure, today, exc, slots, current_date, defaults, dayrule>>

\* the candidate's end, slot_end = current_slot_time + slot_delta
SlotEnd == current_slot_time + duration

\* lines 379-382 and 404: the day's loop ends
EndDay ==
    /\ pc = "slot"
    /\ \/ ~(current_slot_time < end_of_day)
       \/ Overruns(current_slot_time, duration, end_of_day)
    /\ current_date' = current_date + 1
    /\ pc' = "day"
    /\ UNCHANGED <<callers, structure, today, exc, slots, defaults, dayrule>>

\* the candidate is examined: the loop runs and does not break
Candidate ==
    /\ pc = "slot"
    /\ current_slot_time < end_of_day
    /\ ~Overruns(current_slot_time, duration, end_of_day)

\* the cursor moves one duration past the break's end
AfterBreakSkipsOne(cst, dur, cd, b) == Combine(cd, b.end) + dur

\* the cursor moves on by one duration, as after an emitted slot
AfterBreakNextStep(cst, dur, cd, b) == cst + dur

\* line 396: datetime.combine(current_date, break_end_time)
AfterBreak(cst, dur, cd, b) == Combine(cd, b.end)

\* lines 394-396
JumpBreak ==
    /\ Candidate
    /\ FirstBreak(current_slot_time, SlotEnd, break_intervals) # 0
    /\ current_slot_time' =
          AfterBreak(current_slot_time, duration, current_date,
                     break_intervals[FirstBreak(current_slot_time, SlotEnd,
                                                break_intervals)])
    /\ UNCHANGED <<callers, structure, today, pc, exc, slots, current_date, defaults,
                   start_time, end_time, duration, break_intervals, end_of_day>>

\* lines 397-402
EmitSlot ==
    /\ Candidate
    /\ FirstBreak(current_slot_time, SlotEnd, break_intervals) = 0
    /\ Len(slots) < MaxSlots
    /\ slots' = Append(slots, Slot(current_slot_time))
    /\ current_slot_time' = SlotEnd
    /\ UNCHANGED <<callers, structure, today, pc, exc, current_date, defaults,
                   start_time, end_time, duration, break_intervals, end_of_day>>

Next ==
    \/ Setup
    \/ SkipBlocked
    \/ EnterOverride
    \/ EnterDefault
    \/ SkipDay
    \/ Return
    \/ EndDay
    \/ JumpBreak
    \/ EmitSlot

Spec == Init /\ [][Next]_vars

\* --------------------------------- generate_schedule and handler.do_POST
MinTextLength == 15
HandlerMinLength == 10
NumDays == 90

\* A request text is its length after strip() and the words of interest it
\* contains: "joke" is on both deny lists, "story" on the handler's only,
\* "monday" is one of the handler's scheduling terms.
Text(len, words) == [len |-> len, words |-> words]
Texts ==
    {Text(n, ws) : n \in {0, 9, 10, 14, 15, 20},
                   ws \in {ws \in SUBSET {"joke", "story", "monday"} :
                              Cardinality(ws) <= 1}}
    \ {Text(0, {w}) : w \in {"joke", "story", "monday"}}

\* index.py, validate_schedule_text: the message, "none" for None
validate_schedule_text(text) ==
    IF text.len < MinTextLength THEN "too short"
    ELSE IF "joke" \in text.words THEN "off topic"
    ELSE "none"

\* schedule.py, validate_medical_context
validate_medical_context(text) ==
    /\ text.words \cap {"joke", "story"} = {}
    /\ ~(text.len < HandlerMinLength)
    /\ "monday" \in text.words

\* only a text that is too short is turned away
RejectedWhenShort(error) == error = "too short"

\* if validation_error:
Rejected(error) == error # "none"

\* all(key in default_config for key in required_keys); the rule records of
\* the inputs always carry days
HasRequiredKeys(cfg) ==
    /\ cfg.start_time.tag # "absent"
    /\ cfg.end_time.tag # "absent"
    /\ cfg.slot_duration_minutes.tag # "absent"

\* the value of structure before the extraction
NotExtracted ==
    Structure(DefaultRule(<<>>, Absent, Absent, Absent, NoBreaksKey), <<>>, NoBlocks)

\* what the text-understanding service may answer to generate_schedule
ExtractedStructures ==
    {Structure(d, o, b) : d \in DefaultsBase, o \in OverrideListsFew, b \in BlockedFew}
    \cup { Structure(DefaultRule(<<>>, TimeStr(HM(9, 0)), TimeStr(HM(10, 10)),
                                IntVal(20), ListOf(<<>>)), <<>>, NoBlocks),
           Structure(DefaultRule(<<"Monday">>, TimeStr(HM(9, 0)), TimeStr(HM(10, 10)),
                                IntVal(20), ListOf(<<Brk(HM(9, 30), HM(9, 45))>>)),
                     <<>>, NoBlocks),
           Structure(DefaultRule(<<"Monday">>, Absent, TimeStr(HM(10, 10)),
                                IntVal(20), ListOf(<<>>)), <<>>, NoBlocks),
           Structure(DefaultRule(<<"Monday">>, TimeStr(HM(9, 0)), TimeStr(HM(10, 10)),
                                Absent, ListOf(<<>>)), <<>>, NoBlocks),
           Structure(DefaultRule(<<"Monday">>, TimeStr(HM(9, 0)), TimeStr(HM(10, 10)),
                                IntVal(20), ListOf(<<>>)),
                     <<Ov("Monday", <<Bad, TimeStr(HM(10, 0)), IntVal(20),
                                      ListOf(<<>>)>>)>>, NoBlocks) }

\* what it may answer to the handler: a flat rule
HandlerRules ==
    { DefaultRule(<<"Monday", "Funday", "Saturday">>, TimeStr(HM(9, 0)),
                  TimeStr(HM(10, 10)), IntVal(20),
                  ListOf(<<Brk(HM(9, 30), HM(9, 45))>>)),
      DefaultRule(<<"Monday">>, Absent, TimeStr(HM(10, 10)), Absent, NoBreaksKey),
      DefaultRule(<<"Funday">>, TimeStr(HM(9, 0)), TimeStr(HM(10, 10)),
                  IntVal(20), ListOf(<<>>)),
      DefaultRule(<<"Monday">>, Bad, TimeStr(HM(10, 10)), IntVal(20), ListOf(<<>>)),
      DefaultRule(<<"Monday">>, TimeStr(HM(9, 0)), TimeStr(HM(10, 10)), IntVal(20),
                  ListOf(<<[start |-> TimeStr(HM(9, 20)), end |-> Bad]>>)) }

\* schedule.py 198-206: the weekday numbers of the names DAY_MAP knows
HandlerDays(cfg) ==
    {day_mapping[cfg.days[i]] :
        i \in {j \in DOMAIN cfg.days : cfg.days[j] \in DOMAIN day_mapping}}

\* schedule.py 218-227: the breaks that have both a start and an end
HandlerBreakItems(cfg) ==
    IF cfg.breaks.kind = "list"
    THEN SelectSeq(cfg.breaks.items,
                   LAMBDA b : b.start.tag # "absent" /\ b.end.tag # "absent")
    ELSE <<>>

\* schedule.py 205-227: no valid day, or a time that map(int, split(":"))
\* cannot read, or breaks that are no list of objects
HandlerRaises(cfg) ==
    \/ HandlerDays(cfg) = {}
    \/ ~TimeParses(GetOr(cfg.start_time, TimeStr(HM(9, 0))))
    \/ ~TimeParses(GetOr(cfg.end_time, TimeStr(HM(17, 0))))
    \/ cfg.breaks.kind = "other"
    \/ \E i \in DOMAIN HandlerBreakItems(cfg) :
          \/ ~TimeParses(HandlerBreakItems(cfg)[i].start)
          \/ ~TimeParses(HandlerBreakItems(cfg)[i].end)

\* schedule.py 244-248: the first break the cursor is in, 0 if none
HandlerInBreak(t, bi) ==
    LET hits == {k \in DOMAIN bi : bi[k].start <= t /\ t < bi[k].end}
    IN  IF hits = {} THEN 0 ELSE CHOOSE k \in hits : \A j \in hits : k <= j

\* schedule.py 241-265: the slot times of one day from the cursor on, for a
\* slot_duration of at least 1
RECURSIVE HandlerDaySlots(_, _, _, _)
HandlerDaySlots(t, en, dur, bi) ==
    IF ~(t < en) THEN <<>>
    ELSE IF HandlerInBreak(t, bi) # 0
         THEN HandlerDaySlots(bi[HandlerInBreak(t, bi)].end, en, dur, bi)
         ELSE <<t>> \o HandlerDaySlots(t + dur, en, dur, bi)

\* schedule.py 232-267: the slots of the days from day_offset on
RECURSIVE HandlerSlotsFrom(_, _, _)
HandlerSlotsFrom(day_offset, cfg, now) ==
    IF day_offset >= NumDays THEN <<>>
    ELSE LET d == now + day_offset
             times ==
                IF Weekday(d) \in HandlerDays(cfg)
                THEN HandlerDaySlots(
                        ParseTime(GetOr(cfg.start_time, TimeStr(HM(9, 0)))),
                        ParseTime(GetOr(cfg.end_time, TimeStr(HM(17, 0)))),
                        GetOr(cfg.slot_duration_minutes, IntVal(DefaultDuration)).val,
                        BreakIntervals(HandlerBreakItems(cfg)))
                ELSE <<>>
         IN  [i \in DOMAIN times |-> Slot(Combine(d, times[i]))]
             \o HandlerSlotsFrom(day_offset + 1, cfg, now)

\* index.py 443-445: the validator gates generate_schedule
Validate ==
    /\ route = "index" /\ pc = "validate"
    /\ validation_error' = validate_schedule_text(schedule_text)
    /\ IF Rejected(validation_error')
       THEN pc' = "responded" /\ status' = 400
       ELSE pc' = "extract" /\ status' = status
    /\ UNCHANGED <<route, schedule_text, calls, total_slots, store, structure,
                   today, exc, slots, current_date, defaults, dayrule>>

\* index.py 449, 480-484: the text-understanding service answers with a
\* structure, or the call or the parsing of its answer raises
Extract ==
    /\ route = "index" /\ pc = "extract"
    /\ calls' = Append(calls, "extract")
    /\ \/ /\ structure' \in ExtractedStructures
          /\ pc' = "keys" /\ status' = status
       \/ /\ pc' = "responded" /\ status' = 500
          /\ UNCHANGED structure
    /\ UNCHANGED <<route, schedule_text, validation_error, total_slots, store,
                   today, exc, slots, current_date, defaults, dayrule>>

\* index.py 452-463: the required keys, then generate_slots is entered
CheckKeys ==
    /\ route = "index" /\ pc = "keys"
    /\ IF HasRequiredKeys(structure.default)
       THEN pc' = "setup" /\ status' = status /\ calls' = Append(calls, "generate")
       ELSE pc' = "responded" /\ status' = 500 /\ calls' = calls
    /\ UNCHANGED <<route, schedule_text, validation_error, total_slots, store,
                   structure, today, exc, slots, current_date, defaults, dayrule>>

\* index.py 465-484: the status answered once generate_slots has returned
\* generated_slots (raised = FALSE) or has raised
ResponseStatusNever404(raised, generated_slots) ==
    IF raised THEN 500 ELSE 200
ResponseStatus(raised, generated_slots) ==
    IF raised THEN 500
    ELSE IF generated_slots = <<>> THEN 404 ELSE 200

\* index.py 465-484: generate_slots has returned or raised
Respond ==
    /\ route = "index" /\ pc \in {"done", "failed"}
    /\ status' = ResponseStatus(pc = "failed", slots)
    /\ total_slots' = IF status' = 200 THEN Len(slots) ELSE 0
    /\ pc' = "responded"
    /\ UNCHANGED <<route, schedule_text, validation_error, calls, store,
                   structure, today, exc, slots, current_date, defaults, dayrule>>

\* schedule.py 40-49: the empty text and the context validator
HandlerValidate ==
    /\ route = "handler" /\ pc = "validate"
    /\ validation_error' =
          IF schedule_text.len = 0 THEN "required"
          ELSE IF ~validate_medical_context(schedule_text) THEN "invalid"
          ELSE "none"
    /\ IF Rejected(validation_error')
       THEN pc' = "responded" /\ status' = 400
       ELSE pc' = "handler_extract" /\ status' = status
    /\ UNCHANGED <<route, schedule_text, calls, total_slots, store, structure,
                   today, exc, slots, current_date, defaults, dayrule>>

\* schedule.py 53, 64-65: parse_with_openai returns a flat rule or raises
HandlerExtract ==
    /\ route = "handler" /\ pc = "handler_extract"
    /\ calls' = Append(calls, "extract")
    /\ \/ /\ \E cfg \in HandlerRules : structure' = Structure(cfg, <<>>, NoBlocks)
          /\ pc' = "handler_generate" /\ status' = status
       \/ /\ pc' = "responded" /\ status' = 500
          /\ UNCHANGED structure
    /\ UNCHANGED <<route, schedule_text, validation_error, total_slots, store,
                   today, exc, slots, current_date, defaults, dayrule>>

\* schedule.py 54-65: the handler's own generate_slots and the response
HandlerGenerate ==
    /\ route = "handler" /\ pc = "handler_generate"
    /\ calls' = Append(calls, "generate")
    /\ IF HandlerRaises(structure.default)
       THEN status' = 500 /\ exc' = "ValueError" /\ slots' = slots
       ELSE /\ status' = 200 /\ exc' = exc
            /\ slots' = HandlerSlotsFrom(0, structure.default, today)
    /\ total_slots' = IF status' = 200 THEN Len(slots') ELSE 0
    /\ pc' = "responded"
    /\ UNCHANGED <<route, schedule_text, validation_error, store, structure,
                   today, current_date, defaults, dayrule>>

ScheduleInit ==
    /\ route \in {"index", "handler"}
    /\ schedule_text \in Texts
    /\ validation_error = "none" /\ calls = <<>> /\ status = 0
    /\ total_slots = 0
    /\ structure = NotExtracted
    /\ today \in 0..MaxToday
    /\ pc = "validate" /\ exc = "none"
    /\ LocalsUnset /\ StoreIdle

ScheduleNext ==
    \/ Validate
    \/ Extract
    \/ CheckKeys
    \/ Setup
    \/ SkipBlocked
    \/ EnterOverride
    \/ EnterDefault
    \/ SkipDay
    \/ Return
    \/ EndDay
    \/ JumpBreak
    \/ EmitSlot
    \/ Respond
    \/ HandlerValidate
    \/ HandlerExtract
    \/ HandlerGenerate

SpecSchedule == ScheduleInit /\ [][ScheduleNext]_vars

\* ------------------------------------- book_appointment, cancel_appointment
\* Every call of the store is one step; the requests interleave between the
\* calls, and a call may fail (ok = FALSE): the client methods catch that.
Free(p) == request[p].at = "done" /\ started < MaxOps
Ends(r, outcome) == [r EXCEPT !.at = "done", !.outcome = outcome]

\* get_availability: the available rows of the doctor on the date
GetAvailability(doctor_id, date) ==
    {[date |-> k.date, time |-> k.time, status |-> availability[k]] :
        k \in {j \in SlotKeys : /\ j.doctor_id = doctor_id
                                /\ availability[j] = "available"
                                /\ j.date = date}}

\* the time is not compared
SlotAvailableAnyTime(rows, date, time) ==
    \E slot \in rows : slot.date = date /\ slot.status = "available"

\* any(slot['date'] == date and slot['time'] == time and
\*     slot['status'] == 'available' for slot in slots)
SlotAvailable(rows, date, time) ==
    \E slot \in rows :
       slot.date = date /\ slot.time = time /\ slot.status = "available"

\* update_slot_status: every row of the key gets the status
UpdateSlotStatus(doctor_id, date, time, new_status) ==
    [k \in SlotKeys |->
        IF k = SlotKey(doctor_id, date, time) /\ availability[k] # "absent"
        THEN new_status ELSE availability[k]]

\* if len(apt_time) > 5: apt_time = apt_time[:5]
Normalize(t) == IF t.seconds THEN Rendered(t.hm, FALSE) ELSE t
\* .eq('time', apt_time) on a row stored as HH:MM
TimeEq(stored, t) == ~t.seconds /\ stored = t.hm

\* a book_appointment request arrives
StartBook(p) ==
    /\ Free(p)
    /\ \E k \in SlotKeys :
          request' = [request EXCEPT ![p] =
             [IdleRequest EXCEPT !.op = "book", !.at = "check",
                 !.doctor_id = k.doctor_id, !.date = k.date, !.time = k.time]]
    /\ started' = started + 1
    /\ UNCHANGED <<availability, appointments, next_id, enumeration, endpoint,
                   registry>>

\* index.py 741-753: the availability is read and the slot looked up
CheckAvailability(p) ==
    /\ request[p].op = "book" /\ request[p].at = "check"
    /\ \E ok \in BOOLEAN :
          LET r == request[p]
              rows == IF ok THEN GetAvailability(r.doctor_id, r.date) ELSE {}
          IN  request' = [request EXCEPT ![p] =
                 IF SlotAvailable(rows, r.date, r.time)
                 THEN [r EXCEPT !.at = "insert"]
                 ELSE Ends(r, "400")]
    /\ UNCHANGED <<availability, appointments, next_id, started, enumeration,
                   endpoint, registry>>

\* supabase_client.py 459-473, 489-493: the appointment row is inserted
InsertAppointment(p) ==
    /\ request[p].op = "book" /\ request[p].at = "insert"
    /\ LET r == request[p]
       IN  \/ /\ appointments' = appointments \cup
                    {[id |-> next_id, doctor_id |-> r.doctor_id,
                      date |-> r.date, time |-> r.time]}
              /\ next_id' = next_id + 1
              /\ request' = [request EXCEPT ![p] =
                                [r EXCEPT !.at = "mark", !.id = next_id]]
           \/ /\ request' = [request EXCEPT ![p] = Ends(r, "500")]
              /\ UNCHANGED <<appointments, next_id>>
    /\ UNCHANGED <<availability, started, enumeration, endpoint,
                   registry>>

\* supabase_client.py 476-487 and index.py 759-774: the slot is marked, the
\* result of update_slot_status is not looked at, success is answered
MarkBooked(p) ==
    /\ request[p].op = "book" /\ request[p].at = "mark"
    /\ LET r == request[p]
       IN  /\ \E ok \in BOOLEAN :
                availability' =
                   IF ok THEN UpdateSlotStatus(r.doctor_id, r.date, r.time, "booked")
                   ELSE availability
           /\ request' = [request EXCEPT ![p] = Ends(r, "200")]
    /\ UNCHANGED <<appointments, next_id, started, enumeration, endpoint,
                   registry>>

\* cancel_appointment(appointment_id, doctor_id) is called
StartCancel(p) ==
    /\ Free(p)
    /\ \E id \in 1..(next_id - 1), d \in Doctors :
          request' = [request EXCEPT ![p] =
             [IdleRequest EXCEPT !.op = "cancel", !.at = "lookup",
                 !.id = id, !.doctor_id = d]]
    /\ started' = started + 1
    /\ UNCHANGED <<availability, appointments, next_id, enumeration, endpoint,
                   registry>>

\* supabase_client.py 541-555: the appointment is read; the store renders
\* its time with or without seconds
CancelLookup(p) ==
    /\ request[p].op = "cancel" /\ request[p].at = "lookup"
    /\ LET r == request[p]
           found == {a \in appointments : a.id = r.id /\ a.doctor_id = r.doctor_id}
       IN  \/ /\ found # {}
              /\ \E a \in found, seconds \in BOOLEAN :
                    request' = [request EXCEPT ![p] =
                       [r EXCEPT !.at = "delete", !.date = a.date,
                                 !.apt_time = Normalize(Rendered(a.time, seconds))]]
           \/ /\ found = {}
              /\ request' = [request EXCEPT ![p] = Ends(r, "not found")]
           \/ request' = [request EXCEPT ![p] = Ends(r, "error")]
    /\ UNCHANGED <<availability, appointments, next_id, started, enumeration,
                   endpoint, registry>>

\* supabase_client.py 558: the appointment row is deleted
CancelDelete(p) ==
    /\ request[p].op = "cancel" /\ request[p].at = "delete"
    /\ LET r == request[p]
       IN  \/ /\ appointments' = {a \in appointments : a.id # r.id}
              /\ request' = [request EXCEPT ![p] = [r EXCEPT !.at = "release"]]
           \/ /\ request' = [request EXCEPT ![p] = Ends(r, "error")]
              /\ UNCHANGED appointments
    /\ UNCHANGED <<availability, next_id, started, enumeration, endpoint,
                   registry>>

\* supabase_client.py 561-570: the slot is set back to available
CancelRelease(p) ==
    /\ request[p].op = "cancel" /\ request[p].at = "release"
    /\ LET r == request[p]
       IN  \/ /\ availability' =
                    [k \in SlotKeys |->
                        IF /\ k.doctor_id = r.doctor_id /\ k.date = r.date
                           /\ TimeEq(k.time, r.apt_time)
                           /\ availability[k] # "absent"
                        THEN "available" ELSE availability[k]]
              /\ request' = [request EXCEPT ![p] = Ends(r, "cancelled")]
           \/ /\ request' = [request EXCEPT ![p] = Ends(r, "error")]
              /\ UNCHANGED availability
    /\ UNCHANGED <<appointments, next_id, started, enumeration, endpoint,
                   registry>>

\* the stores the runs start from: every row available, or one row missing
InitialStores ==
    { [k \in SlotKeys |-> "available"],
      [k \in SlotKeys |->
          IF k = SlotKey("d1", 1, HM(9, 0)) THEN "absent" ELSE "available"] }

BookingInit ==
    /\ EnumerationIdle /\ EndpointIdle
    /\ availability \in InitialStores
    /\ appointments = {} /\ next_id = 1
    /\ request = [p \in Requests |-> IdleRequest]
    /\ started = 0
    /\ RegistryIdle

BookingNext ==
    \/ \E p \in Requests : StartBook(p)
    \/ \E p \in Requests : CheckAvailability(p)
    \/ \E p \in Requests : InsertAppointment(p)
    \/ \E p \in Requests : MarkBooked(p)
    \/ \E p \in Requests : StartCancel(p)
    \/ \E p \in Requests : CancelLookup(p)
    \/ \E p \in Requests : CancelDelete(p)
    \/ \E p \in Requests : CancelRelease(p)

SpecBooking == BookingInit /\ [][BookingNext]_vars

\* ------------------------------------------------ save_doctor, trial_signup
\* The requests of this part are served one at a time: request 1 is the only
\* one, and save_doctor and trial_signup are one step each.  At most one
\* call of the store fails inside a request (fault names it); the doctors
\* table has id as its key.
Customers == {"c1", "c2"}
TrialIds == {"t1", "t2"}
Emails == {"e1", "e2"}

\* the slots a save_doctor request carries, as (date, time) pairs; SlotModel
\* gives each the status "available"
SlotSets ==
    { {},
      {<<1, HM(9, 0)>>},
      {<<1, HM(9, 0)>>, <<1, HM(9, 30)>>, <<2, HM(9, 0)>>} }

\* a slug as it is sent: its lower-case text, and whether it came padded and
\* in upper case
RawSlugs == [text : Doctors, shouting : BOOLEAN]
\* request.slug.strip().lower()
StripLower(raw) == raw.text

\* get_doctor_by_customer_id: the ids of the rows of the customer
DoctorsOfCustomer(customer_id) ==
    {d \in Doctors : doctors[d].present /\ doctors[d].customer_id = customer_id}

\* every link counts as free
CheckLinkAlwaysFree(link, exclude_doctor_id) == TRUE

\* check_link_available(link, exclude_doctor_id), "" standing for None
CheckLinkAvailable(link, exclude_doctor_id) ==
    ~\E d \in Doctors :
        /\ doctors[d].present /\ doctors[d].link = link
        /\ (exclude_doctor_id = "" \/ d # exclude_doctor_id)

\* doctor_data['id']: doctor_id if not existing_doctor else existing_doctor['id']
DoctorDataId(id, link, existing) == IF existing = "" THEN id ELSE existing

\* SheetsClient.save_doctor: the row of the id is updated, or inserted
SaveDoctorRow(id, link, customer_id) ==
    [doctors EXCEPT ![id] = DoctorRow(link, customer_id)]

\* SheetsClient.save_availability: the doctor's rows are deleted (unless the
\* delete failed, which clear_availability swallows) and the given slots
\* inserted as available; a row left beside a new row of the same key reads
\* as available
SaveAvailability(doctor_id, slot_set, cleared) ==
    [k \in SlotKeys |->
        IF k.doctor_id # doctor_id THEN availability[k]
        ELSE IF <<k.date, k.time>> \in slot_set THEN "available"
        ELSE IF cleared THEN "absent"
        ELSE availability[k]]

\* index.py 608-690: one save_doctor request
SaveDoctor ==
    /\ Free(1)
    /\ \E id \in Doctors, link \in Doctors,
          customer_id \in {""} \cup Customers \cup TrialIds,
          slot_set \in SlotSets,
          fault \in {"none", "lookup", "check", "save", "clear", "insert"} :
          \E existing \in (IF customer_id # "" /\ fault # "lookup"
                              /\ DoctorsOfCustomer(customer_id) # {}
                           THEN DoctorsOfCustomer(customer_id) ELSE {""}) :
             LET data_id == DoctorDataId(id, link, existing)
                 sent == [NoReply EXCEPT !.op = "save_doctor", !.id = id,
                             !.link = link, !.customer_id = customer_id,
                             !.with_slots = slot_set # {},
                             !.existing = existing]
             IN  IF fault = "check" \/ ~CheckLinkAvailable(link, existing)
                 THEN /\ reply' = [sent EXCEPT !.status = 400]
                      /\ UNCHANGED <<doctors, availability>>
                 ELSE IF fault = "save"
                 THEN /\ reply' = [sent EXCEPT !.status = 500]
                      /\ UNCHANGED <<doctors, availability>>
                 ELSE /\ doctors' = SaveDoctorRow(data_id, link, customer_id)
                      /\ IF slot_set = {}
                         THEN /\ reply' = [sent EXCEPT !.status = 200,
                                                       !.doctor_id = data_id]
                              /\ UNCHANGED availability
                         ELSE /\ availability' =
                                    SaveAvailability(data_id,
                                       IF fault = "insert" THEN {} ELSE slot_set,
                                       fault # "clear")
                              /\ reply' =
                                    IF fault # "insert"
                                    THEN [sent EXCEPT !.status = 200,
                                                      !.doctor_id = data_id,
                                                      !.save_id = data_id]
                                    ELSE [sent EXCEPT !.status = 500,
                                                      !.save_id = data_id]
    /\ started' = started + 1
    /\ UNCHANGED <<appointments, next_id, request, users, enumeration, endpoint>>

\* index.py 1011-1087: one trial_signup request
TrialSignup ==
    /\ Free(1)
    /\ \E email \in Emails, raw \in RawSlugs, trial_id \in TrialIds,
          fault \in {"none", "lookup", "check", "save_user", "save"} :
          /\ \A d \in Doctors : doctors[d].customer_id # trial_id
          /\ LET slug == StripLower(raw)
                 sent == [NoReply EXCEPT !.op = "trial_signup", !.id = slug,
                             !.link = slug, !.customer_id = trial_id,
                             !.email = email]
             IN  IF \/ fault # "lookup" /\ email \in users
                    \/ fault = "check" \/ ~CheckLinkAvailable(slug, "")
                 THEN /\ reply' = [sent EXCEPT !.status = 400]
                      /\ UNCHANGED <<doctors, users>>
                 ELSE IF fault = "save_user"
                 THEN /\ reply' = [sent EXCEPT !.status = 500]
                      /\ UNCHANGED <<doctors, users>>
                 ELSE /\ users' = users \cup {email}
                      /\ IF fault # "save"
                         THEN /\ doctors' = SaveDoctorRow(slug, slug, trial_id)
                              /\ reply' = [sent EXCEPT !.status = 200,
                                                       !.doctor_id = slug]
                         ELSE /\ reply' = [sent EXCEPT !.status = 500]
                              /\ UNCHANGED doctors
    /\ started' = started + 1
    /\ UNCHANGED <<availability, appointments, next_id, request, enumeration,
                   endpoint>>

\* the stores the served-one-at-a-time runs start from: nothing registered;
\* two doctors registered with all their slots available; the same after
\* doctor d1's slot of day 1 at 09:00 was booked
Registered ==
    [d \in Doctors |-> DoctorRow(d, IF d = "d1" THEN "c1" ELSE "")]
BookedOnce ==
    [k \in SlotKeys |->
        IF k = SlotKey("d1", 1, HM(9, 0)) THEN "booked" ELSE "available"]
SerialStores ==
    { [doctors |-> [d \in Doctors |-> NoDoctor],
       availability |-> [k \in SlotKeys |-> "absent"],
       appointments |-> {}, next_id |-> 1],
      [doctors |-> Registered,
       availability |-> [k \in SlotKeys |-> "available"],
       appointments |-> {}, next_id |-> 1],
      [doctors |-> Registered,
       availability |-> BookedOnce,
       appointments |-> {[id |-> 1, doctor_id |-> "d1", date |-> 1,
                          time |-> HM(9, 0)]},
       next_id |-> 2] }

SerialInit ==
    /\ EnumerationIdle /\ EndpointIdle
    /\ \E s \in SerialStores :
          /\ doctors = s.doctors /\ availability = s.availability
          /\ appointments = s.appointments /\ next_id = s.next_id
    /\ users = {} /\ reply = NoReply
    /\ request = [p \in Requests |-> IdleRequest]
    /\ started = 0

SerialNext ==
    \/ StartBook(1)
    \/ CheckAvailability(1)
    \/ InsertAppointment(1)
    \/ MarkBooked(1)
    \/ StartCancel(1)
    \/ CancelLookup(1)
    \/ CancelDelete(1)
    \/ CancelRelease(1)
    \/ SaveDoctor
    \/ TrialSignup

SpecSerial == SerialInit /\ [][SerialNext]_vars

\* ------------------------------------------------------------------ claims
\* a slot is appended in this step
Emits == slots' # slots
\* the rule the day under enumeration was entered with came from an override
OnOverrideDay == pc = "slot" /\ DayName(current_date) \in DOMAIN day_overrides
CurrentOverride == day_overrides[DayName(current_date)]
\* the default rule carries the four keys generate_schedule requires
PassesRequiredKeys ==
    /\ structure.default.start_time.tag # "absent"
    /\ structure.default.end_time.tag # "absent"
    /\ structure.default.slot_duration_minutes.tag # "absent"

\* C1: whenever a slot is emitted, its start plus the slot duration of the
\* day under enumeration is at most that day's end time; the emitted slot is
\* the cursor, so a candidate that would overrun the end is never emitted.
C1_NoOverrun ==
    [][Emits => /\ current_slot_time + duration <= Combine(current_date, end_time)
                /\ slots' = Append(slots, Slot(current_slot_time))]_vars

\* a day's loop has ended on a candidate that starts before the end of the
\* day but would overrun it, after slots of that day were emitted
C1_Witness ==
    /\ pc = "slot"
    /\ current_slot_time < end_of_day
    /\ current_slot_time + duration > end_of_day
    /\ duration >= 1
    /\ slots # <<>>
    /\ slots[Len(slots)].date = current_date

\* C2: whenever a slot [t, t + duration) is emitted, t >= b_end or
\* t + duration <= b_start holds for every break of the rule of the day under
\* enumeration, whatever the number, order and alignment of the breaks.
C2_NoBreakOverlap ==
    [][Emits =>
         \A k \in DOMAIN break_intervals :
            \/ TimeOf(current_slot_time) >= break_intervals[k].end
            \/ TimeOf(current_slot_time) + duration <= break_intervals[k].start]_vars

\* a slot was emitted off the grid on a day with two breaks given out of order
C2_Witness ==
    /\ pc = "slot"
    /\ Len(break_intervals) = 2
    /\ break_intervals[1].start > break_intervals[2].start
    /\ slots # <<>>
    /\ slots[Len(slots)].date = current_date
    /\ (slots[Len(slots)].time - start_time) % duration # 0

\* C3: the returned list holds no slot dated on a date of the blocked set.
C3_BlockedDatesEmpty ==
    pc = "done" => \A i \in DOMAIN slots : DateStr(slots[i].date) \notin blocked_dates

\* C4: a day entered under an override is enumerated from the override's
\* start_time to the override's end_time (09:00 and 17:00 for a missing key);
\* and every date of the horizon that is not blocked and has an override
\* whose first candidate fits and is outside the breaks has a slot at the
\* override's start, whether or not the default rule enables the weekday.
C4_OverridePrecedence ==
    /\ OnOverrideDay =>
          /\ start_time = GetOr(CurrentOverride.start_time, TimeStr(HM(9, 0))).val
          /\ end_time = GetOr(CurrentOverride.end_time, TimeStr(HM(17, 0))).val
          /\ end_of_day = Combine(current_date, end_time)
    /\ pc = "done" =>
          \A d \in today..(today + HorizonDays - 1) :
             (/\ DateStr(d) \notin blocked_dates
              /\ DayName(d) \in DOMAIN day_overrides) =>
                LET ov == day_overrides[DayName(d)]
                    st == GetOr(ov.start_time, TimeStr(HM(9, 0))).val
                    en == GetOr(ov.end_time, TimeStr(HM(17, 0))).val
                    dur == GetOr(ov.slot_duration_minutes, IntVal(default_duration)).val
                    bs == IF ov.breaks.kind = "absent" THEN <<>> ELSE ov.breaks.items
                IN  (/\ dur >= 1
                     /\ st + dur <= en
                     /\ \A k \in DOMAIN bs :
                           st >= bs[k].end.val \/ st + dur <= bs[k].start.val)
                    => \E i \in DOMAIN slots :
                          slots[i].date = d /\ slots[i].time = st

\* Saturday is not among the default rule's days, has an override, and the
\* returned list holds a Saturday slot at the override's start
C4_Witness ==
    /\ pc = "done"
    /\ day_mapping["Saturday"] \notin default_days
    /\ default_days # {}
    /\ "Saturday" \in DOMAIN day_overrides
    /\ \E i \in DOMAIN slots :
          /\ DayName(slots[i].date) = "Saturday"
          /\ slots[i].time = day_overrides["Saturday"].start_time.val
          /\ slots[i].time # default_start

\* C5: an override that omits slot_duration_minutes is enumerated with the
\* default rule's duration, one that omits breaks with the default rule's
\* breaks, and then no returned slot of such a day overlaps a default break.
C5_FallbackToDefaultBreaks ==
    /\ OnOverrideDay =>
          /\ CurrentOverride.slot_duration_minutes.tag = "absent"
                => duration = default_duration
          /\ CurrentOverride.breaks.kind = "absent"
                => break_intervals = BreakIntervals(default_breaks)
    /\ pc = "done" =>
          \A i \in DOMAIN slots :
             (/\ DayName(slots[i].date) \in DOMAIN day_overrides
              /\ day_overrides[DayName(slots[i].date)].breaks.kind = "absent") =>
                \A k \in DOMAIN default_breaks :
                   \/ slots[i].time >= default_breaks[k].end.val
                   \/ slots[i].time + default_duration <= default_breaks[k].start.val

\* C5 as amended: an override that omits slot_duration_minutes is enumerated
\* with the default rule's duration after its clamping (30 when the default
\* is missing, not an integer or below 5); an override that omits breaks is
\* enumerated with no breaks at all.
C5_FallbackAsCoded ==
    OnOverrideDay =>
       /\ CurrentOverride.slot_duration_minutes.tag = "absent" =>
             /\ duration = default_duration
             /\ duration =
                   (IF \/ structure.default.slot_duration_minutes.tag # "int"
                       \/ structure.default.slot_duration_minutes.val < MinDuration
                    THEN DefaultDuration
                    ELSE structure.default.slot_duration_minutes.val)
       /\ CurrentOverride.breaks.kind = "absent" => break_intervals = <<>>

\* an override without slot_duration_minutes and without breaks is being
\* enumerated with the default's 20 minutes; the default rule has a break and
\* a slot overlapping that break was emitted
C5_Witness ==
    /\ OnOverrideDay
    /\ CurrentOverride.slot_duration_minutes.tag = "absent"
    /\ CurrentOverride.breaks.kind = "absent"
    /\ default_duration # DefaultDuration
    /\ default_breaks # <<>>
    /\ \E i \in DOMAIN slots : \E k \in DOMAIN default_breaks :
          /\ slots[i].date = current_date
          /\ slots[i].time < default_breaks[k].end.val
          /\ slots[i].time + duration > default_breaks[k].start.val

\* C6: the returned list is strictly increasing in (date, time).
C6_StrictlyIncreasing ==
    pc = "done" =>
       \A i \in 1..(Len(slots) - 1) :
          \/ slots[i].date < slots[i + 1].date
          \/ slots[i].date = slots[i + 1].date /\ slots[i].time < slots[i + 1].time

\* C7: for a structure that passes the required-keys check, every iteration
\* of a day's loop strictly advances the cursor.
C7_CursorAdvances ==
    [][(PassesRequiredKeys /\ pc = "slot" /\ pc' = "slot")
          => current_slot_time' > current_slot_time]_vars

\* C8: the slot duration a day is enumerated with is at least 1.
C8_DurationAtLeastOne == pc = "slot" => duration >= 1

\* C9: generate_slots never fails on an unparsable time of day.
C9_UnparsableTimeNeverFails == ~(pc = "failed" /\ exc = "ValueError")

\* C10: every slot of the returned list is dated from today to today + 179
\* days; none is dated today + 180 days.
C10_Horizon ==
    pc = "done" =>
       \A i \in DOMAIN slots :
          today <= slots[i].date /\ slots[i].date <= today + HorizonDays - 1

\* the calendar days the blocked entries of the inputs can name
CalendarDays == 0..(MaxToday + HorizonDays + 7)
\* the entries of blocked_dates that are {start, end} records, and the
\* entries of blocked_date_ranges
RangeEntries ==
    {[start |-> structure.blocked_dates[i].a, end |-> structure.blocked_dates[i].b] :
        i \in {j \in DOMAIN structure.blocked_dates :
                  structure.blocked_dates[j].kind = "range"}}
    \cup {structure.blocked_date_ranges[i] : i \in DOMAIN structure.blocked_date_ranges}
\* both dates of the entry parse
WellFormed(r) == r.start.tag \in {"ymd", "loose"} /\ r.end.tag \in {"ymd", "loose"}

\* C11: once the set-up has run, the blocked set is the bare date strings and
\* the {date} values of blocked_dates as written, together with the canonical
\* string of every calendar day from start to end inclusive of every
\* {start, end} record of blocked_dates and every entry of blocked_date_ranges
\* whose two dates parse; it holds nothing else.
C11_BlockedSetIsUnion ==
    pc # "setup" =>
       blocked_dates =
          {structure.blocked_dates[i].a :
              i \in {j \in DOMAIN structure.blocked_dates :
                        structure.blocked_dates[j].kind \in {"str", "date"}}}
          \cup {Ymd(d) : d \in {c \in CalendarDays :
                    \E r \in RangeEntries :
                       /\ WellFormed(r)
                       /\ r.start.val <= c /\ c <= r.end.val}}

\* the set-up has run on an input with a bare date, a {date} record, a
\* {start, end} record of three days and a blocked_date_ranges entry of two
\* days, and the blocked set holds all seven dates
C11_Witness ==
    /\ pc = "day"
    /\ \E i \in DOMAIN structure.blocked_dates : structure.blocked_dates[i].kind = "str"
    /\ \E i \in DOMAIN structure.blocked_dates : structure.blocked_dates[i].kind = "date"
    /\ \E i \in DOMAIN structure.blocked_dates :
          /\ structure.blocked_dates[i].kind = "range"
          /\ structure.blocked_dates[i].a = Ymd(19)
          /\ structure.blocked_dates[i].b = Ymd(21)
    /\ structure.blocked_date_ranges = <<Range(Ymd(12), Ymd(13))>>
    /\ blocked_dates = {Ymd(5), Ymd(7), Ymd(12), Ymd(13), Ymd(19), Ymd(20), Ymd(21)}

\* the input without the range entries that have an unparsable date
WithoutMalformed ==
    [blocked_dates |->
        SelectSeq(structure.blocked_dates,
                  LAMBDA it : it.kind = "range" =>
                                 WellFormed([start |-> it.a, end |-> it.b])),
     blocked_date_ranges |-> SelectSeq(structure.blocked_date_ranges, WellFormed)]

\* C12: the set-up ends without an exception, and the blocked set it builds
\* is the one it builds from the same input without the range entries whose
\* start or end does not parse: such an entry contributes no date, and the
\* dates of the other entries are unchanged.
C12_MalformedRangeIgnored ==
    [][pc = "setup" =>
          /\ pc' = "day" /\ exc' = "none"
          /\ blocked_dates' = ResolveBlocked(WithoutMalformed)]_vars

\* the set-up has run on an input with a {start, end} record whose start
\* does not parse and a blocked_date_ranges entry whose end does not parse;
\* the parsable end and start of those entries (day 7) are not blocked while
\* the well-formed entry's days are
C12_Witness ==
    /\ pc = "day" /\ exc = "none"
    /\ \E i \in DOMAIN structure.blocked_dates :
          /\ structure.blocked_dates[i].kind = "range"
          /\ structure.blocked_dates[i].a = Bad
          /\ structure.blocked_dates[i].b = Ymd(7)
    /\ \E i \in DOMAIN structure.blocked_date_ranges :
          structure.blocked_date_ranges[i] = Range(Ymd(7), Bad)
    /\ Ymd(7) \notin blocked_dates
    /\ {Ymd(19), Ymd(20)} \subseteq blocked_dates

\* the enumeration has just finished the first seven days of its horizon
AfterFirstWeek == pc = "day" /\ current_date = today + 7
\* the times of the slots dated d, and their number
TimesOn(d) == {slots[i].time : i \in {j \in DOMAIN slots : slots[j].date = d}}
CountOn(d) == Cardinality({j \in DOMAIN slots : slots[j].date = d})
\* 09:00, 09:30, ..., 16:30
HalfHours == {HM(9, 0) + 30 * k : k \in 0..15}

\* C14 (Scenario A): for Monday-Friday 09:00-17:00 in 30-minute slots without
\* breaks and blocks, the seven days starting on a Monday yield exactly 80
\* slots, 16 on each of the five working days; the first slot is
\* (day 1, 09:00) and the last slot of day 1 is (day 1, 16:30).
C14_ScenarioA ==
    (structure = ScenarioA /\ Weekday(today) = 0 /\ AfterFirstWeek) =>
       /\ Len(slots) = 80
       /\ \A d \in today..(today + 4) : CountOn(d) = 16
       /\ slots[1] = Slot(Combine(today, HM(9, 0)))
       /\ slots[16] = Slot(Combine(today, HM(16, 30)))
       /\ slots[17].date = today + 1

\* Scenario A has been enumerated over the week starting on Monday, day 0
C14_Witness ==
    /\ structure = ScenarioA /\ today = 0 /\ AfterFirstWeek
    /\ slots # <<>>

\* C15 (Scenario B): with the break 12:00-13:00 added to the default rule of
\* Scenario A, every working day of the first week has exactly 14 slots: the
\* 16 half hours from 09:00 to 16:30 without 12:00 and 12:30.
C15_ScenarioB ==
    (structure = ScenarioB /\ Weekday(today) = 0 /\ AfterFirstWeek) =>
       /\ Len(slots) = 70
       /\ \A d \in today..(today + 4) :
             /\ CountOn(d) = 14
             /\ TimesOn(d) = HalfHours \ {HM(12, 0), HM(12, 30)}

\* Scenario B has been enumerated over the week starting on Monday, day 0,
\* and the cursor has jumped over the break on the last working day
C15_Witness ==
    /\ structure = ScenarioB /\ today = 0 /\ AfterFirstWeek
    /\ \E i \in DOMAIN slots : slots[i] = Slot(Combine(today + 4, HM(13, 0)))

\* the slot a request is about, and the live appointment rows of a slot
KeyOf(r) == SlotKey(r.doctor_id, r.date, r.time)
RowsOf(k) ==
    {a \in appointments : a.doctor_id = k.doctor_id /\ a.date = k.date /\ a.time = k.time}

\* C16: whatever the interleaving, a slot never has two appointment rows, and
\* no two book_appointment requests for the same slot have both been
\* answered with success and both left their appointment row in the store.
C16_AtMostOneBooking ==
    /\ \A k \in SlotKeys : Cardinality(RowsOf(k)) <= 1
    /\ \A p, q \in Requests :
          (/\ p # q
           /\ request[p].op = "book" /\ request[q].op = "book"
           /\ KeyOf(request[p]) = KeyOf(request[q])
           /\ request[p].outcome = "200" /\ request[q].outcome = "200")
          => \E r \in {request[p], request[q]} :
                \A a \in appointments : a.id # r.id

\* C17: a book_appointment request that reads the availability while the
\* store has no available row for exactly its (doctor_id, date, time) is
\* answered with 400 at that step, and the step changes neither the
\* appointments nor any slot status; a request answered with 400 has
\* inserted no appointment row.
C17_RejectsUnavailable ==
    [][\A p \in Requests :
          /\ (/\ request[p].op = "book" /\ request[p].at = "check"
              /\ request'[p] # request[p]
              /\ availability[KeyOf(request[p])] # "available")
             => /\ request'[p].at = "done" /\ request'[p].outcome = "400"
                /\ appointments' = appointments
                /\ availability' = availability
          /\ request'[p].outcome = "400" => request'[p].id = 0]_vars

\* a request for a slot another request has booked was answered with 400
\* while another slot of the same doctor and date is still available
C17_Witness ==
    \E p \in Requests :
       /\ request[p].op = "book" /\ request[p].outcome = "400"
       /\ availability[KeyOf(request[p])] = "booked"
       /\ RowsOf(KeyOf(request[p])) # {}
       /\ \E k \in SlotKeys :
             /\ k.doctor_id = request[p].doctor_id /\ k.date = request[p].date
             /\ availability[k] = "available"

\* C18: the step that answers a booking with success leaves the booked
\* slot's row in status booked, the step that ends a cancellation with
\* success leaves the appointment deleted and the slot's row available, and
\* both leave the status of every other slot as it was.
C18_RoundTrip ==
    [][\A p \in Requests :
          LET r == request[p]
              k == SlotKey(r.doctor_id, r.date, r.apt_time.hm)
          IN  /\ (r.op = "book" /\ r.at = "mark" /\ request'[p].outcome = "200")
                 => /\ availability[KeyOf(r)] # "absent"
                          => availability'[KeyOf(r)] = "booked"
                    /\ \A j \in SlotKeys \ {KeyOf(r)} :
                          availability'[j] = availability[j]
              /\ (r.op = "cancel" /\ r.at = "release"
                    /\ request'[p].outcome = "cancelled")
                 => /\ \A a \in appointments' : a.id # r.id
                    /\ k \in SlotKeys /\ availability[k] # "absent"
                          => availability'[k] = "available"
                    /\ \A j \in SlotKeys \ {k} :
                          availability'[j] = availability[j]]_vars

\* C19: once a validator has turned the text away, the request is answered
\* with 400 and neither the text-understanding service nor the slot
\* generation has been called; the calls are made in the order extraction,
\* generation, and generate_slots runs only after both were logged.
C19_ValidatorGates ==
    /\ validation_error # "none"
          => pc = "responded" /\ status = 400 /\ calls = <<>> /\ slots = <<>>
    /\ calls \in {<<>>, <<"extract">>, <<"extract", "generate">>}
    /\ pc \in {"setup", "day", "slot", "done", "failed"}
          => calls = <<"extract", "generate">>

\* an off-topic text of sufficient length was answered with 400 without any
\* call, on either route
C19_Witness ==
    /\ pc = "responded" /\ status = 400 /\ calls = <<>>
    /\ schedule_text.len >= MinTextLength
    /\ validation_error \in {"off topic", "invalid"}

\* C20: a request of generate_schedule that ends on a validation error (the
\* text is too short or off-topic, or the extracted default rule misses
\* start_time, end_time or slot_duration_minutes) is not answered with 500.
C20_ValidationErrorsNot500 ==
    (/\ route = "index" /\ pc = "responded"
     /\ \/ validation_error # "none"
        \/ calls = <<"extract">> /\ structure # NotExtracted /\ ~PassesRequiredKeys)
    => status # 500

\* C21: generate_schedule answers with success only when generate_slots
\* returned at least one slot, and total_slots is then the number of slots
\* returned; when a structure that passed the key check yields no slot the
\* answer is 404, which is neither the 400 of a validation error nor a 500.
C21_SuccessHasSlots ==
    (route = "index" /\ pc = "responded")
    => /\ status = 200 => slots # <<>> /\ total_slots = Len(slots)
       /\ (calls = <<"extract", "generate">> /\ exc = "none" /\ slots = <<>>)
             => status = 404 /\ status \notin {400, 500}
       /\ status = 404 => validation_error = "none" /\ exc = "none"

\* a structure with all required keys yielded no slot and was answered 404
C21_Witness ==
    /\ route = "index" /\ pc = "responded" /\ status = 404
    /\ PassesRequiredKeys /\ slots = <<>>
    /\ calls = <<"extract", "generate">>

\* the cursor stands at the end of one of the day's breaks
AtBreakEnd ==
    \E i \in DOMAIN break_intervals :
       current_slot_time = Combine(current_date, break_intervals[i].end)

\* C22: the step that finds the candidate overlapping a break moves the
\* cursor to exactly that break's end on the day under enumeration, which is
\* strictly later than the rejected candidate's start, and emits nothing;
\* and when the cursor stands at a break's end and the candidate from there
\* starts before and ends by the end of the day and overlaps no break, the
\* next step emits the slot that starts at the break's end.
C22_JumpToBreakEnd ==
    [][/\ (Candidate /\ FirstBreak(current_slot_time, SlotEnd, break_intervals) # 0)
          => LET b == break_intervals[FirstBreak(current_slot_time, SlotEnd,
                                                 break_intervals)]
             IN  /\ current_slot_time' = Combine(current_date, b.end)
                 /\ current_slot_time' > current_slot_time
                 /\ slots' = slots
       /\ (/\ pc = "slot" /\ AtBreakEnd
           /\ current_slot_time < end_of_day /\ SlotEnd <= end_of_day
           /\ FirstBreak(current_slot_time, SlotEnd, break_intervals) = 0)
          => slots' = Append(slots, Slot(current_slot_time))]_vars

\* the slot emitted last starts at the end of a break of its day, and that
\* end is not on the grid start + k * duration
C22_Witness ==
    /\ pc = "slot" /\ slots # <<>> /\ duration > 0
    /\ current_slot_time = Combine(current_date, slots[Len(slots)].time) + duration
    /\ slots[Len(slots)].date = current_date
    /\ \E i \in DOMAIN break_intervals :
          /\ break_intervals[i].end = slots[Len(slots)].time
          /\ (break_intervals[i].end - start_time) % duration # 0

\* the reference enumeration of a day: step by dur from t, stop at the first
\* candidate that does not end by en, skip a candidate that overlaps a break
RECURSIVE LinearScan(_, _, _, _)
LinearScan(t, en, dur, bi) ==
    IF t >= en \/ t + dur > en THEN <<>>
    ELSE LET hit == \E i \in DOMAIN bi :
                       t < bi[i].end /\ t + dur > bi[i].start
         IN  (IF hit THEN <<>> ELSE <<t>>) \o LinearScan(t + dur, en, dur, bi)

\* every break of the day has start < end and both ends on the grid
AlignedBreaks ==
    \A i \in DOMAIN break_intervals :
       /\ break_intervals[i].start < break_intervals[i].end
       /\ (break_intervals[i].start - start_time) % duration = 0
       /\ (break_intervals[i].end - start_time) % duration = 0

\* the start times of the slots emitted so far for the day under enumeration
DayTimes ==
    LET day == SelectSeq(slots, LAMBDA s : s.date = current_date)
    IN  [i \in DOMAIN day |-> day[i].time]

\* C23: while a day is enumerated with a duration of at least 1 and breaks
\* that all have start < end and both ends on the grid start + k * duration,
\* the slots emitted so far are the slots of the linear scan that start
\* before the cursor, and once the loop is left they are all of them.
C23_SameAsLinearScan ==
    (pc = "slot" /\ duration >= 1 /\ AlignedBreaks)
    => LET linear == LinearScan(start_time, end_time, duration, break_intervals)
       IN  /\ DayTimes = SelectSeq(linear, LAMBDA t : t < TimeOf(current_slot_time))
           /\ (current_slot_time >= end_of_day \/ SlotEnd > end_of_day)
                 => DayTimes = linear

\* a day with an aligned break is done: the linear scan skipped a candidate
\* and slots were emitted on both sides of the break
C23_Witness ==
    /\ pc = "slot" /\ duration >= 1 /\ AlignedBreaks
    /\ current_slot_time >= end_of_day
    /\ \E i \in DOMAIN break_intervals :
          /\ \E j \in DOMAIN DayTimes : DayTimes[j] < break_intervals[i].start
          /\ \E j \in DOMAIN DayTimes : DayTimes[j] >= break_intervals[i].end
          /\ break_intervals[i].end - break_intervals[i].start > duration

\* the positions of the overrides list that name the weekday of the day
\* under enumeration
SameDayEntries ==
    {i \in DOMAIN structure.overrides :
        structure.overrides[i].day = DayName(current_date)}

\* C24: a day whose weekday is named by several entries of the overrides
\* list is enumerated with the start, end, duration and breaks of the entry
\* that comes last among them, whatever the earlier entries hold.
C24_LastOverrideWins ==
    (pc = "slot" /\ Cardinality(SameDayEntries) >= 2)
    => LET last == CHOOSE i \in SameDayEntries : \A j \in SameDayEntries : j <= i
           ov == structure.overrides[last]
       IN  /\ start_time = GetOr(ov.start_time, TimeStr(HM(9, 0))).val
           /\ end_time = GetOr(ov.end_time, TimeStr(HM(17, 0))).val
           /\ duration = GetOr(ov.slot_duration_minutes, IntVal(default_duration)).val
           /\ break_intervals =
                 BreakIntervals(IF ov.breaks.kind = "absent" THEN <<>>
                                ELSE ov.breaks.items)

\* two different entries name the day's weekday, the last one has a break
\* the first one has not, and a slot was emitted after a jump over that break
C24_Witness ==
    /\ pc = "slot" /\ Cardinality(SameDayEntries) >= 2
    /\ \E i, j \in SameDayEntries :
          /\ i < j /\ \A k \in SameDayEntries : k <= j
          /\ structure.overrides[i].breaks # structure.overrides[j].breaks
          /\ structure.overrides[j].breaks.items # <<>>
    /\ \E k \in DOMAIN slots :
          /\ slots[k].date = current_date
          /\ slots[k].time = break_intervals[1].end

\* the handler of schedule.py has answered with the slots of its rule
HandlerAnswered == route = "handler" /\ pc = "responded" /\ status = 200
HandlerEnd == ParseTime(GetOr(structure.default.end_time, TimeStr(HM(17, 0))))
HandlerDuration ==
    GetOr(structure.default.slot_duration_minutes, IntVal(DefaultDuration)).val

\* C25: every slot the handler of schedule.py answers with ends by the
\* rule's end_time: start + slot_duration_minutes <= end_time.
C25_HandlerNoOverrun ==
    HandlerAnswered
    => \A i \in DOMAIN slots : slots[i].time + HandlerDuration <= HandlerEnd

\* C26: no slot the handler of schedule.py answers with intersects a break
\* of the rule: it ends by the break's start or starts at or after its end.
C26_HandlerNoBreakOverlap ==
    HandlerAnswered
    => \A i \in DOMAIN slots :
          \A k \in DOMAIN HandlerBreakItems(structure.default) :
             LET b == BreakIntervals(HandlerBreakItems(structure.default))[k]
             IN  \/ slots[i].time + HandlerDuration <= b.start
                 \/ slots[i].time >= b.end

\* the step is a save_doctor or trial_signup request, answered in reply'
RegistryStep ==
    /\ started' = started + 1 /\ request' = request
    /\ reply'.op \in {"save_doctor", "trial_signup"}

\* C27: when save_doctor finds the doctor by customer_id, the submitted link
\* differs from the stored one and the request succeeds, the record is saved
\* under the new link as id, the answer's doctor_id is the new link, and the
\* slots are saved under the new link.
C27_UpdateTakesNewLink ==
    [][(/\ RegistryStep /\ reply'.op = "save_doctor" /\ reply'.status = 200
        /\ reply'.existing # ""
        /\ doctors[reply'.existing].link # reply'.link)
       => /\ doctors'[reply'.link].present
          /\ doctors'[reply'.link].customer_id = reply'.customer_id
          /\ reply'.doctor_id = reply'.link
          /\ reply'.with_slots => reply'.save_id = reply'.link]_vars

\* C28: serving save_doctor (with its save_availability), book_appointment
\* and cancel_appointment one at a time never leaves two appointment rows of
\* the same doctor, date and time, and a save_doctor request never turns a
\* booked slot into an available one.
C28_SerialNoDoubleBooking ==
    [][/\ \A a, b \in appointments' :
             (a.doctor_id = b.doctor_id /\ a.date = b.date /\ a.time = b.time)
             => a.id = b.id
       /\ (RegistryStep /\ reply'.op = "save_doctor")
          => \A k \in SlotKeys :
                availability[k] = "booked" => availability'[k] # "available"]_vars

\* C29: the step in which create_appointment and book_appointment answer
\* with success leaves the booked slot's row in status booked.
C29_SuccessMeansBooked ==
    [][\A p \in Requests :
          (/\ request[p].op = "book" /\ request[p].at = "mark"
           /\ request'[p].outcome = "200")
          => availability'[KeyOf(request[p])] = "booked"]_vars

\* C30: after every step no two doctor records have the same link; and a
\* save_doctor or trial_signup request whose link is held by the record of
\* another doctor (a record that is not the requesting customer's) is
\* answered with 400 and leaves the doctors table as it was.
C30_LinksStayUnique ==
    [][/\ \A d, e \in Doctors :
             (/\ doctors'[d].present /\ doctors'[e].present
              /\ doctors'[d].link = doctors'[e].link) => d = e
       /\ (/\ RegistryStep
           /\ \E d \in Doctors :
                 /\ doctors[d].present /\ doctors[d].link = reply'.link
                 /\ doctors[d].customer_id # reply'.customer_id)
          => reply'.status = 400 /\ doctors' = doctors]_vars

\* a doctor was registered by an earlier request of the run, and the last
\* request, of another customer and for another id, asked for the link of
\* that doctor's record and was answered with 400
C30_Witness ==
    /\ started = 2 /\ reply.status = 400
    /\ \E d \in Doctors :
          /\ doctors[d].present /\ doctors[d] # Registered[d]
          /\ doctors[d].link = reply.link
          /\ doctors[d].customer_id # reply.customer_id
          /\ reply.id # d

====
